---------------------------- MODULE Spec2Model ----------------------------
(***************************************************************************)
(* Mini God's Eye: the frame pipeline of Backend/vision_engine.py          *)
(* (VisionEngine, FaceDatabase) and the queries of Backend/main.py.        *)
(*                                                                         *)
(* Encodings.  Floats are integers in percent (distance 0.2 is 20, so      *)
(* 1.0 - distance is 100 - 20).  The cache key string f"{a}_{b}" is the    *)
(* pair <<a, b>> (the formatting of two integers is injective).  A CSV     *)
(* names cell is the sequence of names joined, or <<"UNKNOWN">>.  The wall  *)
(* clock of datetime.now() is a logical clock that ticks once per call of  *)
(* _log_detection.                                                         *)
(***************************************************************************)
EXTENDS Integers, Sequences, FiniteSets, TLC

(***************************************************************************)
(* Program constants.                                                      *)
(***************************************************************************)
SKIP_FRAMES == 5
FACE_SKIP_FRAMES == 10
PERSON_CLASS_ID == 0
MAX_LOGS == 1000
BUCKET == 50
PAD == 10
FRAME_WIDTH == 640
FRAME_HEIGHT == 480

(***************************************************************************)
(* Bounds of the model.                                                    *)
(***************************************************************************)
MaxFrames == 11
MaxFails == 10
MaxCadenceFrames == 56
MaxLogFrames == 5010
MaxConcFrames == 10
MaxGalleryFrames == 50
MaxCrowdFrames == 50
MaxOverlapFrames == 10
MaxRaceFrames == 55
LateArrival == 49
CrowdSize == 6

Min(a, b) == IF a <= b THEN a ELSE b
Max(a, b) == IF a >= b THEN a ELSE b

(***************************************************************************)
(* Python's s[start:] for a list s: a negative start counts from the end   *)
(* and is clamped at 0, a start past the end gives the empty list.         *)
(***************************************************************************)
PySliceFrom(s, start) ==
    LET n  == Len(s)
        lo == IF start < 0 THEN Max(n + start, 0) ELSE Min(start, n)
    IN  SubSeq(s, lo + 1, n)

(***************************************************************************)
(* The detector's boxes (box.cls[0], box.xyxy[0], box.conf[0]) the frames  *)
(* of the model show.  BoxA and BoxC share the cache key, BoxB has its     *)
(* own, BoxE is BoxA moved 15 px left, BoxCar is not a person.             *)
(***************************************************************************)
BoxA   == [cls |-> 0, xyxy |-> <<10, 10, 60, 110>>,   conf |-> 90]
BoxB   == [cls |-> 0, xyxy |-> <<100, 20, 180, 140>>, conf |-> 80]
BoxC   == [cls |-> 0, xyxy |-> <<20, 20, 70, 120>>,   conf |-> 70]
BoxE   == [cls |-> 0, xyxy |-> <<0, 10, 40, 110>>,    conf |-> 85]
BoxCar == [cls |-> 2, xyxy |-> <<300, 300, 400, 400>>, conf |-> 95]

(***************************************************************************)
(* What self.model(frame) can do: raise, or return a list of results, each *)
(* with boxes None or a list of boxes.                                     *)
(***************************************************************************)
Result(bs) == [none |-> FALSE, boxes |-> bs]
NoBoxes    == [none |-> TRUE, boxes |-> <<>>]
Returns(rs) == [raises |-> FALSE, results |-> rs]
DetectorRaises == [raises |-> TRUE, results |-> <<>>]

DetectorOutputs ==
    { DetectorRaises,
      Returns(<<NoBoxes>>),
      Returns(<<Result(<<>>)>>),
      Returns(<<Result(<<BoxCar>>)>>),
      Returns(<<Result(<<BoxA>>)>>),
      Returns(<<Result(<<BoxCar, BoxA, BoxB>>)>>) }

CadenceOutputs ==
    { Returns(<<Result(<<>>)>>),
      Returns(<<Result(<<BoxA, BoxB>>)>>),
      Returns(<<Result(<<BoxC, BoxB>>)>>),
      Returns(<<Result(<<BoxE, BoxB>>)>>),
      Returns(<<Result(<<BoxA, BoxC>>)>>) }

LogOutputs == { Returns(<<Result(<<BoxA>>)>>) }

ConcOutputs ==
    { Returns(<<Result(<<>>)>>),
      Returns(<<Result(<<BoxA>>)>>),
      Returns(<<Result(<<BoxA, BoxB>>)>>) }

\* the limits the /logs route is asked with (its default is 50)
Limits == {0, 1, 2, 50, 1000, 1001}

(***************************************************************************)
(* The gallery: display names in the order the dict iterates them.  What   *)
(* DeepFace.verify does for one gallery entry is the environment's choice. *)
(***************************************************************************)
Names == {"Alice", "Bob"}

\* the files known_faces/ can hold, with image_path.suffix.lower() and
\* image_path.stem.replace("_", " ").title() of each
Files == {"alice.jpg", "bob.png", "notes.txt"}
Suffix(f) == CASE f = "alice.jpg" -> ".jpg"
               [] f = "bob.png"   -> ".png"
               [] f = "notes.txt" -> ".txt"
DisplayName(f) == CASE f = "alice.jpg" -> "Alice"
                    [] f = "bob.png"   -> "Bob"
                    [] f = "notes.txt" -> "Notes"
VALID_EXTENSIONS == {".jpg", ".jpeg", ".png", ".bmp"}

\* the folder at construction
Dirs == { <<>>, <<"alice.jpg">>, <<"alice.jpg", "bob.png">>,
          <<"bob.png", "alice.jpg">> }
Verified(d) == [kind |-> "verified", distance |-> d]
Rejected    == [kind |-> "rejected", distance |-> 60]
VerifyRaises == [kind |-> "raises", distance |-> 0]
VerifyOutcomes == { Verified(20), Rejected, VerifyRaises }
\* one verdict per gallery name, for one probe crop
Verdicts == [Names -> VerifyOutcomes]

Identity(n, c, k) == [identity |-> n, face_conf |-> c, is_known |-> k]
Scanning == Identity("SCANNING...", 0, FALSE)
Unknown  == Identity("UNKNOWN", 0, FALSE)
NotAvailable == Identity("N/A", 0, FALSE)

VARIABLES
    deepface_available, \* the module's DEEPFACE_AVAILABLE
    known_faces,        \* face_db.known_faces, as the sequence of its names
    cap,                \* self.cap: "None", "open", "unopened", "released"
    last_detections,    \* self.last_detections
    frame_count,        \* self.frame_count
    face_frame_count,   \* self.face_frame_count
    person_detected,    \* self.person_detected
    identified_count,   \* self.identified_count
    detection_logs,     \* self.detection_logs
    identity_cache,     \* self.identity_cache, a function on the stored keys
    csv_rows,           \* the rows of detection_history.csv after the header
    clock,              \* datetime.now(), a logical clock
    pc,                 \* where the one generate_frames generator stands
    stop_requested,     \* the consumer has gone away
    fail_streak,        \* consecutive failed reads (saturates at MaxFails)
    emitted,            \* frames yielded so far
    inferred,           \* the last process_frame called _run_detection
    outcome,            \* how the last process_frame ended
    resolver_calls,     \* _identify_person calls of the last _run_detection
    boxes_seen,         \* person boxes of the last _run_detection
    resolver_total,     \* _identify_person calls since construction
    reply,              \* the pending answer of get_logs, or NoReply
    ppc,                \* where the loop thread stands inside process_frame
    lock,               \* self._lock: "free", or the thread that holds it
    rpc,                \* where a thread stands inside get_status
    status,             \* the dict that get_status call is building
    cycles,             \* the status triples the inference cycles ended with
    faces_dir,          \* the files of known_faces/, in iterdir() order
    response,           \* the last answer of a /faces route
    probe,              \* the last direct call of the resolver, with its answer
    opc,                \* where each of two overlapping generators stands
    handles,            \* the cv2.VideoCapture objects those runs created
    cap_ref,            \* self.cap among them: an index of handles, 0 for None
    local_names,        \* known_names of line 328, the local of each generator
    locals              \* the other locals of each generator's calls

engine == <<deepface_available, known_faces, last_detections, frame_count,
            face_frame_count, person_detected, identified_count,
            detection_logs, identity_cache, csv_rows, clock>>
ghost == <<inferred, outcome, resolver_calls, boxes_seen, resolver_total>>
stream == <<cap, pc, stop_requested, fail_streak, emitted>>
conc == <<ppc, lock, rpc, status, cycles>>
overlap == <<opc, handles, cap_ref, local_names, locals>>
rest == <<faces_dir, response, probe, overlap>>
vars == <<engine, ghost, stream, reply, conc, rest>>

NoReply == [limit |-> -1, logs |-> <<>>]
NoStatus == [person_detected |-> FALSE, identified_count |-> -1,
             frame_count |-> -1, detections_count |-> -1]
Triple(pd, ic, dc) == <<pd, ic, dc>>
EmptyCache == [k \in {} |-> Scanning]
NoResponse == [route |-> "none", code |-> 0, faces |-> <<>>]
NoProbe == [called |-> FALSE]
\* two consumers of /video_feed, each with its own generator
Runs == {1, 2}
\* the locals of _run_detection (results, run_face_recognition, detections,
\* the position in the boxes, identity) and of _log_detection (num_persons,
\* identified, timestamp) before they are assigned
NoLocals == [results |-> <<>>, run_face |-> FALSE, detections |-> <<>>,
             i |-> 0, id |-> Scanning, calls |-> 0, num_persons |-> 0,
             identified |-> 0, timestamp |-> -1]

(***************************************************************************)
(* FaceDatabase._load_known_faces: the dict of display names, in the order *)
(* of their first insertion; a file with another suffix is passed over.    *)
(***************************************************************************)
RECURSIVE ScanFrom(_, _, _)
ScanFrom(dir, i, names) ==
    IF i > Len(dir) THEN names
    ELSE IF Suffix(dir[i]) \notin VALID_EXTENSIONS
         THEN ScanFrom(dir, i + 1, names)
    ELSE IF \E k \in 1..Len(names) : names[k] = DisplayName(dir[i])
         THEN ScanFrom(dir, i + 1, names)
    ELSE ScanFrom(dir, i + 1, Append(names, DisplayName(dir[i])))

_load_known_faces(dir) ==
    IF ~deepface_available THEN <<>> ELSE ScanFrom(dir, 1, <<>>)

\* known_faces[name]: the path the scan stored for a display name
PathOf(name) ==
    CHOOSE f \in Files :
        Suffix(f) \in VALID_EXTENSIONS /\ DisplayName(f) = name


(***************************************************************************)
(* FaceDatabase.identify_face: the first gallery entry, in gallery order,  *)
(* that DeepFace.verify reports verified; an entry whose verification      *)
(* raises is skipped like one that is rejected.                            *)
(***************************************************************************)
\* a loop that goes through the whole gallery and keeps the last match
RECURSIVE VerifyFromLastMatch(_, _, _)
VerifyFromLastMatch(gallery, i, verdict) ==
    IF i > Len(gallery) THEN Unknown
    ELSE LET r     == verdict[gallery[i]]
             later == VerifyFromLastMatch(gallery, i + 1, verdict)
         IN  IF later.is_known THEN later
             ELSE IF r.kind = "verified"
                  THEN Identity(gallery[i], 100 - r.distance, TRUE)
                  ELSE Unknown

RECURSIVE VerifyFrom(_, _, _)
VerifyFrom(gallery, i, verdict) ==
    IF i > Len(gallery) THEN Unknown
    ELSE LET r == verdict[gallery[i]]
         IN  IF r.kind = "verified"
             THEN Identity(gallery[i], 100 - r.distance, TRUE)
             ELSE VerifyFrom(gallery, i + 1, verdict)

\* the number of DeepFace.verify calls that loop makes from entry i on
RECURSIVE VerifyCount(_, _, _)
VerifyCount(gallery, i, verdict) ==
    IF i > Len(gallery) THEN 0
    ELSE IF verdict[gallery[i]].kind = "verified" THEN 1
    ELSE 1 + VerifyCount(gallery, i + 1, verdict)

identify_face(gallery, verdict) ==
    IF gallery = <<>> \/ ~deepface_available
    THEN Unknown
    ELSE VerifyFrom(gallery, 1, verdict)

(***************************************************************************)
(* VisionEngine._identify_person: the crop is frame[crop_y1:crop_y2,       *)
(* crop_x1:crop_x2], a numpy slice of the frame, and an empty crop is      *)
(* "UNKNOWN".  The starts are clamped at 0 by max(); the stops are only    *)
(* clamped from above by min(), so a stop can be negative, and a negative  *)
(* slice bound counts from the end of the axis.                            *)
(***************************************************************************)
\* the index a slice bound stands for on an axis of n elements
SliceIndex(i, n) == IF i < 0 THEN Max(n + i, 0) ELSE Min(i, n)

\* the number of elements of axis[start:stop] on an axis of n elements
SliceLen(start, stop, n) ==
    Max(SliceIndex(stop, n) - SliceIndex(start, n), 0)

CropSize(b) ==
    LET crop_y1 == Max(0, b[2] - PAD)
        crop_y2 == Min(FRAME_HEIGHT, b[4] + PAD)
        crop_x1 == Max(0, b[1] - PAD)
        crop_x2 == Min(FRAME_WIDTH, b[3] + PAD)
    IN  SliceLen(crop_y1, crop_y2, FRAME_HEIGHT)
            * SliceLen(crop_x1, crop_x2, FRAME_WIDTH) * 3

CropEmpty(b) == CropSize(b) = 0

_identify_person(b, verdict) ==
    IF ~deepface_available THEN NotAvailable
    ELSE IF CropEmpty(b) THEN Unknown
    ELSE identify_face(known_faces, verdict)

(***************************************************************************)
(* VisionEngine._run_detection, after self.model(frame) returned.          *)
(***************************************************************************)
cache_key(b) == << (b[1] + b[3]) \div BUCKET, (b[2] + b[4]) \div BUCKET >>

Store(cache, key, v) ==
    [k \in (DOMAIN cache) \cup {key} |-> IF k = key THEN v ELSE cache[k]]

RECURSIVE FlattenBoxes(_)
FlattenBoxes(results) ==
    IF results = <<>> THEN <<>>
    ELSE (IF Head(results).none THEN <<>> ELSE Head(results).boxes)
         \o FlattenBoxes(Tail(results))

PersonBoxes(results) ==
    SelectSeq(FlattenBoxes(results), LAMBDA b : b.cls = PERSON_CLASS_ID)

run_face_recognition_offset(j) == j % FACE_SKIP_FRAMES = 1
\* a face cadence that resolves in every inference cycle
run_face_recognition_always(j) == j >= 0
run_face_recognition(j) == j % FACE_SKIP_FRAMES = 0

\* a branch that resolves whatever the size of the gallery
ResolvesIgnoringGallery(run_face) ==
    run_face /\ deepface_available

\* the branch of line 301: resolve this box through DeepFace
Resolves(run_face) ==
    run_face /\ deepface_available /\ Len(known_faces) > 0

\* a lookup that, for a key nothing is stored under, takes a value stored
\* under another key
DetectOneAnyCached(acc, box, run_face, verdict) ==
    LET key     == cache_key(box.xyxy)
        resolve == Resolves(run_face)
        id      == IF resolve THEN _identify_person(box.xyxy, verdict)
                   ELSE IF key \in DOMAIN acc.cache THEN acc.cache[key]
                   ELSE IF DOMAIN acc.cache # {}
                        THEN acc.cache[CHOOSE k \in DOMAIN acc.cache : TRUE]
                   ELSE Scanning
    IN  [detections |-> Append(acc.detections,
                               [bbox |-> box.xyxy, yolo_conf |-> box.conf,
                                identity |-> id.identity,
                                face_conf |-> id.face_conf,
                                is_known |-> id.is_known]),
         cache |-> IF resolve THEN Store(acc.cache, key, id) ELSE acc.cache,
         calls |-> acc.calls + (IF resolve THEN 1 ELSE 0)]

\* one person box: acc is [detections, cache, calls]
DetectOne(acc, box, run_face, verdict) ==
    LET key     == cache_key(box.xyxy)
        resolve == Resolves(run_face)
        id      == IF resolve THEN _identify_person(box.xyxy, verdict)
                   ELSE IF key \in DOMAIN acc.cache THEN acc.cache[key]
                   ELSE Scanning
    IN  [detections |-> Append(acc.detections,
                               [bbox |-> box.xyxy, yolo_conf |-> box.conf,
                                identity |-> id.identity,
                                face_conf |-> id.face_conf,
                                is_known |-> id.is_known]),
         cache |-> IF resolve THEN Store(acc.cache, key, id) ELSE acc.cache,
         calls |-> acc.calls + (IF resolve THEN 1 ELSE 0)]

RECURSIVE DetectFrom(_, _, _, _, _)
DetectFrom(acc, persons, i, run_face, verdicts) ==
    IF i > Len(persons) THEN acc
    ELSE DetectFrom(DetectOne(acc, persons[i], run_face, verdicts[i]),
                    persons, i + 1, run_face, verdicts)

\* results: what the detector returned; j: face_frame_count after line 284;
\* verdicts[i]: what DeepFace.verify does for the i-th person box
_run_detection(results, j, cache, verdicts) ==
    DetectFrom([detections |-> <<>>, cache |-> cache, calls |-> 0],
               PersonBoxes(results), 1, run_face_recognition(j), verdicts)

\* the verdict vectors a detector output asks for
VerdictsFor(det) ==
    IF ~det.raises /\ Resolves(run_face_recognition(face_frame_count + 1))
    THEN [1..Len(PersonBoxes(det.results)) -> Verdicts]
    ELSE { [i \in 1..Len(PersonBoxes(det.results)) |->
                [n \in Names |-> Rejected]] }

(***************************************************************************)
(* VisionEngine._log_detection.                                            *)
(***************************************************************************)
Event(t, num_persons, identified, names) ==
    [timestamp |-> t, num_persons |-> num_persons,
     identified |-> identified, names |-> names]

CsvRow(t, num_persons, identified, names) ==
    [timestamp |-> t, num_persons |-> num_persons, identified |-> identified,
     names |-> IF names # <<>> THEN names ELSE <<"UNKNOWN">>]

\* a truncation that keeps the oldest MAX_LOGS events
AppendLogKeepsOldest(logs, ev) ==
    LET l == Append(logs, ev)
    IN  IF Len(l) > MAX_LOGS THEN SubSeq(l, 1, MAX_LOGS) ELSE l

\* lines 187-195: the append and the truncation, under the lock
AppendLog(logs, ev) ==
    LET l == Append(logs, ev)
    IN  IF Len(l) > MAX_LOGS THEN PySliceFrom(l, -MAX_LOGS) ELSE l

\* a _log_detection that writes the CSV row and appends nothing in memory
_log_detection_csv_only(num_persons, identified, names, csv_ok) ==
    /\ clock' = clock + 1
    /\ csv_rows' = IF csv_ok
                   THEN Append(csv_rows,
                               CsvRow(clock, num_persons, identified, names))
                   ELSE csv_rows
    /\ UNCHANGED detection_logs

\* csv_ok: the open and the write of lines 183-185 succeed; when they raise,
\* the exception leaves _log_detection before the lock is taken
_log_detection(num_persons, identified, names, csv_ok) ==
    /\ clock' = clock + 1
    /\ IF csv_ok
       THEN /\ csv_rows' = Append(csv_rows,
                                  CsvRow(clock, num_persons, identified, names))
            /\ detection_logs' = AppendLog(detection_logs,
                                  Event(clock, num_persons, identified, names))
       ELSE UNCHANGED <<csv_rows, detection_logs>>

(***************************************************************************)
(* VisionEngine.get_logs and the /logs route around it.                    *)
(***************************************************************************)
get_logs(logs, limit) == PySliceFrom(logs, -limit)

(***************************************************************************)
(* The state after VisionEngine.__init__.  DEEPFACE_AVAILABLE is fixed at  *)
(* import; without DeepFace _load_known_faces returns before it scans.     *)
(* _init_csv_log writes the header only when the file does not exist: a    *)
(* file left by an earlier run of the server keeps its rows, while the     *)
(* list in memory starts empty.  The rows of an earlier run carry the      *)
(* ticks of that run's clock.                                              *)
(***************************************************************************)
EarlierRows ==
    << CsvRow(0, 1, 0, <<>>), CsvRow(1, 2, 1, <<"Alice">>) >>

\* detection_history.csv when the engine is constructed
CsvFiles == { <<>>, EarlierRows }

Init ==
    /\ deepface_available \in BOOLEAN
    /\ faces_dir \in Dirs
    /\ known_faces = _load_known_faces(faces_dir)
    /\ response = NoResponse
    /\ probe = NoProbe
    /\ opc = [r \in Runs |-> "idle"]
    /\ handles = <<>>
    /\ cap_ref = 0
    /\ local_names = [r \in Runs |-> <<>>]
    /\ locals = [r \in Runs |-> NoLocals]
    /\ cap = "None"
    /\ last_detections = <<>>
    /\ frame_count = 0
    /\ face_frame_count = 0
    /\ person_detected = FALSE
    /\ identified_count = 0
    /\ detection_logs = <<>>
    /\ identity_cache = EmptyCache
    /\ csv_rows \in CsvFiles
    /\ clock = 0
    /\ pc = "idle"
    /\ stop_requested = FALSE
    /\ fail_streak = 0
    /\ emitted = 0
    /\ inferred = FALSE
    /\ outcome = "none"
    /\ resolver_calls = 0
    /\ boxes_seen = 0
    /\ resolver_total = 0
    /\ reply = NoReply
    /\ ppc = "idle"
    /\ lock = "free"
    /\ rpc = "idle"
    /\ status = NoStatus
    /\ cycles = {Triple(FALSE, 0, 0)}

(***************************************************************************)
(* VisionEngine.process_frame on one frame.  det is what self.model(frame) *)
(* does, verdicts what DeepFace.verify does, csv_ok whether the CSV write  *)
(* succeeds.  outcome' tells how the call ended: "skipped", "empty",       *)
(* "logged", or with an exception, "detector_raised" or "csv_failed".      *)
(***************************************************************************)
RunsInferenceBeforeIncrement(i) == (i - 1) % SKIP_FRAMES = 0
RunsInference(i) == i % SKIP_FRAMES = 0

known_names(dets) ==
    LET known == SelectSeq(dets, LAMBDA d : d.is_known)
    IN  [i \in 1..Len(known) |-> known[i].identity]

\* lines 324-333: the body of the if of line 323
inference_cycle(det, verdicts, csv_ok) ==
    /\ inferred' = TRUE
    /\ IF det.raises
       THEN /\ outcome' = "detector_raised"
            /\ UNCHANGED <<face_frame_count, last_detections,
                           identity_cache, person_detected,
                           identified_count, detection_logs,
                           csv_rows, clock, resolver_calls,
                           boxes_seen, resolver_total>>
       ELSE LET r == _run_detection(det.results, face_frame_count + 1,
                                  identity_cache, verdicts)
                names == known_names(r.detections)
            IN  /\ face_frame_count' = face_frame_count + 1
                /\ last_detections' = r.detections
                /\ identity_cache' = r.cache
                /\ resolver_calls' = r.calls
                /\ boxes_seen' = Len(r.detections)
                /\ resolver_total' = resolver_total + r.calls
                /\ IF r.detections # <<>>
                   THEN /\ person_detected' = TRUE
                        /\ identified_count' = Len(names)
                        /\ _log_detection(Len(r.detections), Len(names),
                                        names, csv_ok)
                        /\ outcome' = IF csv_ok THEN "logged"
                                      ELSE "csv_failed"
                   ELSE /\ person_detected' = FALSE
                        /\ identified_count' = 0
                        /\ outcome' = "empty"
                        /\ UNCHANGED <<detection_logs, csv_rows, clock>>

process_frame(det, verdicts, csv_ok) ==
    /\ frame_count' = frame_count + 1
    /\ UNCHANGED <<deepface_available, known_faces>>
    /\ IF RunsInference(frame_count + 1)
       THEN inference_cycle(det, verdicts, csv_ok)
       ELSE /\ inferred' = FALSE
            /\ outcome' = "skipped"
            /\ UNCHANGED <<face_frame_count, last_detections, identity_cache,
                           person_detected, identified_count, detection_logs,
                           csv_rows, clock, resolver_calls, boxes_seen,
                           resolver_total>>

Raised(o) == o \in {"detector_raised", "csv_failed"}

(***************************************************************************)
(* VisionEngine.generate_frames, one consumer at a time.  pc: "idle" (no   *)
(* run yet), "read" (in the while loop, before cap.read()), "yielded"      *)
(* (suspended at the yield), "stopped" (closed, after the finally),        *)
(* "raised" (ended by an exception, after the finally).                    *)
(***************************************************************************)
Running == pc \in {"read", "yielded"}
Stopped == pc \in {"stopped", "raised"}

\* lines 372-375: the finally of generate_frames
FinallySkipped(c) == c
Finally(c) == IF c # "None" THEN "released" ELSE c

\* a start that enters the loop without the isOpened() test of line 346
StartWithoutOpenCheck ==
    /\ pc \in {"idle", "stopped", "raised"}
    /\ \E opened \in BOOLEAN :
          /\ cap' = IF opened THEN "open" ELSE "unopened"
          /\ pc' = "read"
    /\ stop_requested' = FALSE
    /\ fail_streak' = 0
    /\ UNCHANGED <<engine, ghost, emitted, reply, rest, conc>>

\* lines 344-354, and 369-375 when the device does not open
Start ==
    /\ pc \in {"idle", "stopped", "raised"}
    /\ \E opened \in BOOLEAN :
          IF opened
          THEN cap' = "open" /\ pc' = "read"
          ELSE cap' = Finally("unopened") /\ pc' = "raised"
    /\ stop_requested' = FALSE
    /\ fail_streak' = 0
    /\ UNCHANGED <<engine, ghost, emitted, reply, rest, conc>>

\* a loop that leaves on a failed read instead of continuing
ReadFailBreaks ==
    /\ pc = "read"
    /\ fail_streak' = Min(fail_streak + 1, MaxFails)
    /\ pc' = "stopped"
    /\ cap' = Finally(cap)
    /\ UNCHANGED <<engine, ghost, stop_requested, emitted, reply, rest, conc>>

\* lines 357-360: cap.read() gives success = False, the loop continues
ReadFail ==
    /\ pc = "read"
    /\ fail_streak' = Min(fail_streak + 1, MaxFails)
    /\ UNCHANGED <<engine, ghost, cap, pc, stop_requested, emitted, reply, rest, conc>>

\* lines 357-367 and 369-375: a frame is read, processed and yielded, or
\* process_frame raises and the finally releases the camera.  outputs, oks
\* and max_frames are what the frames show, whether the CSV can be written,
\* and the number of frames of the run of the model; vectors[det] are the
\* verdict vectors DeepFace.verify can meet on the boxes of det
FrameStepVerdicts(outputs, oks, max_frames, vectors) ==
    /\ pc = "read"
    /\ cap = "open"
    /\ frame_count < max_frames
    /\ \E det \in outputs, csv_ok \in oks :
          \E verdicts \in vectors[det] :
             process_frame(det, verdicts, csv_ok)
    /\ fail_streak' = 0
    /\ IF Raised(outcome')
       THEN cap' = Finally(cap) /\ pc' = "raised" /\ emitted' = emitted
       ELSE cap' = cap /\ pc' = "yielded" /\ emitted' = emitted + 1
    /\ UNCHANGED <<stop_requested, reply, rest, conc>>

FrameStepWith(outputs, oks, max_frames) ==
    FrameStepVerdicts(outputs, oks, max_frames,
                      [det \in outputs |-> VerdictsFor(det)])

FrameStep == FrameStepWith(DetectorOutputs, BOOLEAN, MaxFrames)

\* the consumer asks for the next frame
Resume ==
    /\ pc = "yielded"
    /\ ~stop_requested
    /\ pc' = "read"
    /\ UNCHANGED <<engine, ghost, cap, stop_requested, fail_streak, emitted,
                   reply, rest, conc>>

\* the consumer goes away; the generator learns of it only at its yield
Disconnect ==
    /\ Running
    /\ ~stop_requested
    /\ stop_requested' = TRUE
    /\ UNCHANGED <<engine, ghost, cap, pc, fail_streak, emitted, reply, rest, conc>>

\* the generator is closed at its yield: GeneratorExit, lines 372-375
Close ==
    /\ pc = "yielded"
    /\ stop_requested
    /\ pc' = "stopped"
    /\ cap' = Finally(cap)
    /\ UNCHANGED <<engine, ghost, stop_requested, fail_streak, emitted, reply, rest, conc>>

\* VisionEngine.cleanup, called by the lifespan handler at shutdown
cleanup ==
    /\ cap = "open"
    /\ cap' = "released"
    /\ UNCHANGED <<engine, ghost, pc, stop_requested, fail_streak, emitted,
                   reply, rest, conc>>

Next ==
    \/ Start
    \/ ReadFail
    \/ FrameStep
    \/ Resume
    \/ Disconnect
    \/ Close
    \/ cleanup

Spec == Init /\ [][Next]_vars

\* the loop thread runs and a closed generator is finalised; whether a
\* read succeeds is the camera's choice.  A failed read changes nothing but
\* fail_streak, so once that counter has saturated a loop that keeps
\* failing its reads shows as stuttering at pc = "read"
FairSpec ==
    Spec /\ WF_vars(ReadFail) /\ WF_vars(Close) /\ WF_vars(Resume)

(***************************************************************************)
(* The face cadence: a run over enough frames for face_frame_count to      *)
(* reach FACE_SKIP_FRAMES, on frames that show nobody or two persons: two  *)
(* apart, two under one cache key, one that moved to the next key.         *)
(***************************************************************************)
CadenceStep == FrameStepWith(CadenceOutputs, {TRUE}, MaxCadenceFrames)

NextCadence ==
    \/ Start
    \/ CadenceStep
    \/ Resume

SpecCadence == Init /\ [][NextCadence]_vars

(***************************************************************************)
(* The event log: a run long enough to overflow the in-memory tail, with   *)
(* the /logs route (main.get_logs calling VisionEngine.get_logs) asked     *)
(* between frames.  A pending reply is returned before anything else runs. *)
(***************************************************************************)
InitLog == Init /\ ~deepface_available /\ faces_dir = <<>>

LogStep ==
    /\ reply = NoReply
    /\ FrameStepWith(LogOutputs, {TRUE}, MaxLogFrames)

LogStart == reply = NoReply /\ Start

LogResume == reply = NoReply /\ Resume

GetLogs ==
    /\ reply = NoReply
    /\ \E limit \in Limits :
          reply' = [limit |-> limit,
                    logs |-> get_logs(detection_logs, limit)]
    /\ UNCHANGED <<engine, ghost, stream, conc, rest>>

ReturnLogs ==
    /\ reply # NoReply
    /\ reply' = NoReply
    /\ UNCHANGED <<engine, ghost, stream, conc, rest>>

NextLog ==
    \/ LogStart
    \/ LogStep
    \/ LogResume
    \/ GetLogs
    \/ ReturnLogs

SpecLog == InitLog /\ [][NextLog]_vars

(***************************************************************************)
(* Threads.  The loop thread runs process_frame statement by statement;    *)
(* another thread runs get_status, which takes no lock and reads the       *)
(* attributes one after the other; a third asks get_logs, which holds the  *)
(* lock for its slice.  Only _log_detection and get_logs take self._lock.  *)
(***************************************************************************)
loopvars == <<cap, stop_requested, fail_streak>>
fixed == <<deepface_available, known_faces>>

\* the frame is done: lines 362-367, the generator yields it
Yields ==
    /\ ppc' = "idle"
    /\ pc' = "yielded"
    /\ emitted' = emitted + 1

\* lines 357-362 and 321-323: a frame is read and process_frame entered
PF_Enter ==
    /\ pc = "read" /\ cap = "open" /\ ppc = "idle"
    /\ frame_count < MaxConcFrames
    /\ frame_count' = frame_count + 1
    /\ inferred' = RunsInference(frame_count + 1)
    /\ IF RunsInference(frame_count + 1)
       THEN ppc' = "detect" /\ outcome' = outcome /\ UNCHANGED <<pc, emitted>>
       ELSE outcome' = "skipped" /\ Yields
    /\ UNCHANGED <<fixed, last_detections, face_frame_count, person_detected,
                   identified_count, detection_logs, identity_cache, csv_rows,
                   clock, resolver_calls, boxes_seen, resolver_total, loopvars, reply, rest, lock,
                   rpc, status, cycles>>

\* line 324: self.last_detections = self._run_detection(frame)
PF_Detect ==
    /\ ppc = "detect"
    /\ \E det \in ConcOutputs :
          \E verdicts \in VerdictsFor(det) :
             LET r == _run_detection(det.results, face_frame_count + 1,
                                   identity_cache, verdicts)
             IN  /\ face_frame_count' = face_frame_count + 1
                 /\ last_detections' = r.detections
                 /\ identity_cache' = r.cache
                 /\ resolver_calls' = r.calls
                 /\ boxes_seen' = Len(r.detections)
                 /\ resolver_total' = resolver_total + r.calls
    /\ ppc' = "flags"
    /\ UNCHANGED <<fixed, frame_count, person_detected, identified_count,
                   detection_logs, csv_rows, clock, inferred, outcome,
                   stream, reply, rest, lock, rpc, status, cycles>>

\* lines 326-327 and 331-332: self.person_detected is set
PF_Flags ==
    /\ ppc = "flags"
    /\ person_detected' = (last_detections # <<>>)
    /\ ppc' = IF last_detections # <<>> THEN "count" ELSE "zero"
    /\ UNCHANGED <<fixed, last_detections, frame_count, face_frame_count,
                   identified_count, detection_logs, identity_cache,
                   csv_rows, clock, ghost, stream, reply, rest, lock, rpc, status,
                   cycles>>

\* lines 328-329: self.identified_count = len(known_names)
PF_Count ==
    /\ ppc = "count"
    /\ identified_count' = Len(known_names(last_detections))
    /\ cycles' = cycles \cup {Triple(person_detected,
                                     Len(known_names(last_detections)),
                                     Len(last_detections))}
    /\ ppc' = "csv"
    /\ UNCHANGED <<fixed, last_detections, frame_count, face_frame_count,
                   person_detected, detection_logs, identity_cache, csv_rows,
                   clock, ghost, stream, reply, rest, lock, rpc, status>>

\* line 333: self.identified_count = 0, and the frame is done
PF_Zero ==
    /\ ppc = "zero"
    /\ identified_count' = 0
    /\ cycles' = cycles \cup {Triple(person_detected, 0, Len(last_detections))}
    /\ outcome' = "empty"
    /\ Yields
    /\ UNCHANGED <<fixed, last_detections, frame_count, face_frame_count,
                   person_detected, detection_logs, identity_cache, csv_rows,
                   clock, inferred, resolver_calls, boxes_seen, resolver_total, loopvars,
                   reply, rest, lock, rpc, status>>

\* lines 180-185: the timestamp is taken and the CSV row written
PF_Csv ==
    /\ ppc = "csv"
    /\ csv_rows' = Append(csv_rows,
                          CsvRow(clock, Len(last_detections), identified_count,
                                 known_names(last_detections)))
    /\ clock' = clock + 1
    /\ ppc' = "lock"
    /\ UNCHANGED <<fixed, last_detections, frame_count, face_frame_count,
                   person_detected, identified_count, detection_logs,
                   identity_cache, ghost, stream, reply, rest, lock, rpc, status,
                   cycles>>

\* line 187: with self._lock
PF_Lock ==
    /\ ppc = "lock"
    /\ lock = "free"
    /\ lock' = "loop"
    /\ ppc' = "append"
    /\ UNCHANGED <<engine, ghost, stream, reply, rest, rpc, status, cycles>>

\* lines 188-193: self.detection_logs.append(...)
PF_Append ==
    /\ ppc = "append"
    /\ detection_logs' = Append(detection_logs,
                                Event(clock - 1, Len(last_detections),
                                      identified_count,
                                      known_names(last_detections)))
    /\ ppc' = "truncate"
    /\ UNCHANGED <<fixed, last_detections, frame_count, face_frame_count,
                   person_detected, identified_count, identity_cache,
                   csv_rows, clock, ghost, stream, reply, rest, lock, rpc, status,
                   cycles>>

\* lines 194-195: the truncation; the lock is released, the frame is done
PF_Truncate ==
    /\ ppc = "truncate"
    /\ detection_logs' = IF Len(detection_logs) > MAX_LOGS
                         THEN PySliceFrom(detection_logs, -MAX_LOGS)
                         ELSE detection_logs
    /\ lock' = "free"
    /\ outcome' = "logged"
    /\ Yields
    /\ UNCHANGED <<fixed, last_detections, frame_count, face_frame_count,
                   person_detected, identified_count, identity_cache,
                   csv_rows, clock, inferred, resolver_calls, boxes_seen, resolver_total,
                   loopvars, reply, rest, rpc, status, cycles>>

\* VisionEngine.get_status, line 383: "person_detected": self.person_detected
GS_Person ==
    /\ rpc = "idle"
    /\ status' = [NoStatus EXCEPT !.person_detected = person_detected]
    /\ rpc' = "identified"
    /\ UNCHANGED <<engine, ghost, stream, reply, rest, ppc, lock, cycles>>

\* line 384: "identified_count": self.identified_count
GS_Identified ==
    /\ rpc = "identified"
    /\ status' = [status EXCEPT !.identified_count = identified_count]
    /\ rpc' = "frame"
    /\ UNCHANGED <<engine, ghost, stream, reply, rest, ppc, lock, cycles>>

\* line 385: "frame_count": self.frame_count
GS_Frame ==
    /\ rpc = "frame"
    /\ status' = [status EXCEPT !.frame_count = frame_count]
    /\ rpc' = "detections"
    /\ UNCHANGED <<engine, ghost, stream, reply, rest, ppc, lock, cycles>>

\* line 386: "detections_count": len(self.last_detections); the dict is built
GS_Detections ==
    /\ rpc = "detections"
    /\ status' = [status EXCEPT !.detections_count = Len(last_detections)]
    /\ rpc' = "done"
    /\ UNCHANGED <<engine, ghost, stream, reply, rest, ppc, lock, cycles>>

\* the dict is returned to the /status route
GS_Return ==
    /\ rpc = "done"
    /\ rpc' = "idle"
    /\ status' = NoStatus
    /\ UNCHANGED <<engine, ghost, stream, reply, rest, ppc, lock, cycles>>

\* VisionEngine.get_logs with the default limit: the slice is taken with
\* the lock held
GL_Read ==
    /\ reply = NoReply
    /\ lock = "free"
    /\ reply' = [limit |-> 50, logs |-> get_logs(detection_logs, 50)]
    /\ UNCHANGED <<engine, ghost, stream, conc, rest>>

NextConc ==
    \/ (ppc = "idle" /\ Start)
    \/ (ppc = "idle" /\ Resume)
    \/ PF_Enter
    \/ PF_Detect
    \/ PF_Flags
    \/ PF_Count
    \/ PF_Zero
    \/ PF_Csv
    \/ PF_Lock
    \/ PF_Append
    \/ PF_Truncate
    \/ GS_Person
    \/ GS_Identified
    \/ GS_Frame
    \/ GS_Detections
    \/ GS_Return
    \/ GL_Read
    \/ ReturnLogs

SpecConc == Init /\ [][NextConc]_vars

(***************************************************************************)
(* The /faces routes of main.py, between the frames of a run that reaches  *)
(* a resolution cycle.  VisionEngine has no reload_faces method, so the    *)
(* call of lines 165 and 195 raises AttributeError; every exception of a   *)
(* route body, the HTTPException of lines 153 and 189 included, is caught  *)
(* by its except Exception and answered with status 500.                   *)
(***************************************************************************)
Http(route, code) == [route |-> route, code |-> code, faces |-> <<>>]

\* the orders in which iterdir() can list a set of files: the order is the
\* file system's
Listings(files) ==
    { l \in [1..Cardinality(files) -> files] :
         \A i, k \in 1..Cardinality(files) : i # k => l[i] # l[k] }

\* open(file_path, "wb"): an old file is rewritten in place; a new file
\* joins the folder, and where iterdir() lists it from then on is the file
\* system's choice.  The folders the save can leave:
SaveFile(dir, f) ==
    IF \E i \in 1..Len(dir) : dir[i] = f
    THEN {dir}
    ELSE Listings({dir[i] : i \in 1..Len(dir)} \cup {f})

\* os.remove(target_path)
RemoveFile(dir, f) == SelectSeq(dir, LAMBDA g : g # f)

\* main.get_faces
get_faces ==
    /\ response' = [route |-> "get_faces", code |-> 200,
                    faces |-> known_faces]
    /\ UNCHANGED <<engine, ghost, stream, reply, conc, faces_dir, probe, overlap>>

\* main.upload_face
upload_face ==
    /\ \E f \in Files, is_image \in BOOLEAN :
          \E saved \in SaveFile(faces_dir, f) :
             faces_dir' = IF is_image THEN saved ELSE faces_dir
    /\ response' = Http("upload_face", 500)
    /\ UNCHANGED <<engine, ghost, stream, reply, conc, probe, overlap>>

\* main.delete_face
delete_face ==
    /\ \E name \in Names \cup {"Carol"} :
          LET listed == \E i \in 1..Len(known_faces) : known_faces[i] = name
              exists == /\ listed
                        /\ \E i \in 1..Len(faces_dir) :
                              faces_dir[i] = PathOf(name)
          IN  faces_dir' = IF exists
                           THEN RemoveFile(faces_dir, PathOf(name))
                           ELSE faces_dir
    /\ response' = Http("delete_face", 500)
    /\ UNCHANGED <<engine, ghost, stream, reply, conc, probe, overlap>>

GalleryOutputs == { Returns(<<Result(<<BoxA>>)>>) }

GalleryStep == FrameStepWith(GalleryOutputs, {TRUE}, MaxGalleryFrames)

NextGallery ==
    \/ Start
    \/ GalleryStep
    \/ Resume
    \/ get_faces
    \/ upload_face
    \/ delete_face

SpecGallery == Init /\ [][NextGallery]_vars

(***************************************************************************)
(* A crowd: the first fifty frames of an engine whose frames show nobody   *)
(* or CrowdSize persons side by side, or whose detector raises, which ends *)
(* the run; the next request starts a new run on the same counters.  The   *)
(* faces of one frame meet the same verdict.                               *)
(***************************************************************************)
Crowd == [i \in 1..CrowdSize |->
            [cls |-> 0, xyxy |-> <<100 * (i - 1), 10, 100 * (i - 1) + 50, 110>>,
             conf |-> 75]]

CrowdOutputs ==
    { DetectorRaises, Returns(<<Result(<<>>)>>), Returns(<<Result(Crowd)>>) }

CrowdVerdicts(det) ==
    IF ~det.raises /\ Resolves(run_face_recognition(face_frame_count + 1))
    THEN { [i \in 1..Len(PersonBoxes(det.results)) |-> v] : v \in Verdicts }
    ELSE VerdictsFor(det)

CrowdStep ==
    FrameStepVerdicts(CrowdOutputs, {TRUE}, MaxCrowdFrames,
                      [det \in CrowdOutputs |-> CrowdVerdicts(det)])

NextCrowd ==
    \/ Start
    \/ CrowdStep
    \/ Resume

SpecCrowd == Init /\ [][NextCrowd]_vars

(***************************************************************************)
(* The resolver called directly: FaceDatabase.identify_face on a crop and  *)
(* VisionEngine._identify_person on a box, for every gallery of Init and   *)
(* every verdict of DeepFace.verify.  The second box lies right of the     *)
(* frame, so its crop is empty.                                            *)
(***************************************************************************)
\* boxes inside the frame, right of it, and left of or above it: the last
\* kind gives a negative stop, or the stop 0
ProbeBoxes == { BoxA.xyxy, <<700, 10, 710, 50>>, <<-50, -50, -20, -20>>,
                <<-31, 10, -11, 50>>, <<10, -40, 60, -11>>,
                <<-30, 10, -10, 50>> }

Identify ==
    /\ \E verdict \in Verdicts, b \in ProbeBoxes :
          probe' = [called  |-> TRUE,
                    verdict |-> verdict,
                    bbox    |-> b,
                    face    |-> identify_face(known_faces, verdict),
                    checked |-> IF known_faces = <<>> \/ ~deepface_available
                                THEN 0
                                ELSE VerifyCount(known_faces, 1, verdict),
                    person  |-> _identify_person(b, verdict)]
    /\ UNCHANGED <<engine, ghost, stream, reply, conc, faces_dir, response, overlap>>

NextIdentify == Identify

SpecIdentify == Init /\ [][NextIdentify]_vars

(***************************************************************************)
(* Two consumers.  main.video_feed hands every request a new generator of  *)
(* the one engine, and the server runs each generator in a worker thread,  *)
(* so the two generators run side by side on the attributes of the engine, *)
(* one statement at a time.  self.cap is cap_ref, the last VideoCapture a  *)
(* generator assigned; the object it replaces has no reference left and    *)
(* its destructor closes the device.  opc[r] is the statement run r is     *)
(* about to execute: "idle" (345), "isopened" (347), "except" (369),       *)
(* "read" (line 357), "enter" (362 and 321),                               *)
(* "gate" (323), "model" (281), "count" (284), "cadence" (285), "box"      *)
(* (292), "write" (303), "test" (326), "set_true" (327), "names" (328),    *)
(* "store" (329), "call" (330), "stamp" (180), "csv" (183), "lock" (187),  *)
(* "append" (188), "truncate" (194), "set_false" (332), "zero" (333),      *)
(* "yielded" (367), "stopped", "raised".  locals[r] holds the local        *)
(* variables of the calls run r is inside of.                              *)
(***************************************************************************)
OverlapOutputs ==
    { DetectorRaises,
      Returns(<<Result(<<>>)>>),
      Returns(<<Result(<<BoxA>>)>>) }

\* what neither generator touches
bystanders == <<stream, reply, ppc, rpc, status, cycles, faces_dir, response,
                probe>>

\* run r is inside the while loop of lines 356-367
Active(r) ==
    opc[r] \notin {"idle", "isopened", "except", "stopped", "raised"}

\* run r is inside process_frame
InProcess(r) ==
    opc[r] \notin {"idle", "isopened", "read", "enter", "yielded", "except",
                   "stopped", "raised"}

\* the name run r holds self._lock under
Holder(r) == IF r = 1 THEN "run1" ELSE "run2"

\* self.cap.release() on the object self.cap refers to
ReleaseAt(hs, i) == IF i = 0 THEN hs ELSE [hs EXCEPT ![i] = "released"]

\* process_frame returns and its locals, and those of its callees, go
Return(r) ==
    /\ locals' = [locals EXCEPT ![r] = NoLocals]
    /\ local_names' = [local_names EXCEPT ![r] = <<>>]

\* lines 344-345: self.cap = cv2.VideoCapture(...); the device opens or
\* not, and the object self.cap referred to is destroyed.  The request of
\* this consumer arrives when the engine has counted `earliest` frames or
\* more
O_StartAfter(r, earliest) ==
    /\ opc[r] = "idle"
    /\ frame_count >= earliest
    /\ \E opened \in BOOLEAN :
          handles' = Append(ReleaseAt(handles, cap_ref),
                            IF opened THEN "open" ELSE "unopened")
    /\ cap_ref' = Len(handles) + 1
    /\ opc' = [opc EXCEPT ![r] = "isopened"]
    /\ UNCHANGED <<engine, ghost, bystanders, lock, local_names, locals>>

O_Start(r) == O_StartAfter(r, 0)

\* lines 347-354: if not self.cap.isOpened(), on the object self.cap refers
\* to by now: raise RuntimeError, caught at line 369; else the three
\* self.cap.set(...) and the while loop
O_IsOpened(r) ==
    /\ opc[r] = "isopened"
    /\ opc' = [opc EXCEPT ![r] = IF handles[cap_ref] = "open" THEN "read"
                                 ELSE "except"]
    /\ UNCHANGED <<engine, ghost, bystanders, lock, handles, cap_ref,
                   local_names, locals>>

\* lines 369-375: the except clause prints and raises again, and the
\* finally releases the object self.cap refers to by now
O_Raise(r) ==
    /\ opc[r] = "except"
    /\ handles' = ReleaseAt(handles, cap_ref)
    /\ opc' = [opc EXCEPT ![r] = "raised"]
    /\ UNCHANGED <<engine, ghost, bystanders, lock, cap_ref, local_names,
                   locals>>

\* lines 357-360: this run reads a frame from the object self.cap refers
\* to; a read from a released handle fails, and the loop reads again
O_Read(r) ==
    /\ opc[r] = "read"
    /\ handles[cap_ref] = "open"
    /\ opc' = [opc EXCEPT ![r] = "enter"]
    /\ UNCHANGED <<engine, ghost, bystanders, lock, handles, cap_ref,
                   local_names, locals>>

\* lines 362 and 321: process_frame is entered and counts the frame
O_EnterUpTo(r, max_frames) ==
    /\ opc[r] = "enter"
    /\ frame_count < max_frames
    /\ frame_count' = frame_count + 1
    /\ opc' = [opc EXCEPT ![r] = "gate"]
    /\ UNCHANGED <<deepface_available, known_faces, last_detections,
                   face_frame_count, person_detected, identified_count,
                   detection_logs, identity_cache, csv_rows, clock, ghost,
                   bystanders, lock, handles, cap_ref, local_names, locals>>

O_Enter(r) == O_EnterUpTo(r, MaxOverlapFrames)

\* line 323: if self.frame_count % self.SKIP_FRAMES == 0; a frame that is
\* not inferred on is drawn on and yielded
R_Gate(r) ==
    /\ opc[r] = "gate"
    /\ IF RunsInference(frame_count)
       THEN /\ opc' = [opc EXCEPT ![r] = "model"]
            /\ UNCHANGED <<inferred, outcome>>
       ELSE /\ opc' = [opc EXCEPT ![r] = "yielded"]
            /\ inferred' = FALSE
            /\ outcome' = "skipped"
    /\ UNCHANGED <<engine, resolver_calls, boxes_seen, resolver_total,
                   bystanders, lock, handles, cap_ref, local_names, locals>>

\* lines 281-282: results = self.model(frame); when the call raises, the
\* exception leaves process_frame and is caught at line 369
R_ModelOf(r, outputs) ==
    /\ opc[r] = "model"
    /\ \E det \in outputs :
          IF det.raises
          THEN /\ opc' = [opc EXCEPT ![r] = "except"]
               /\ outcome' = "detector_raised"
               /\ locals' = locals
          ELSE /\ opc' = [opc EXCEPT ![r] = "count"]
               /\ outcome' = outcome
               /\ locals' = [locals EXCEPT ![r].results = det.results]
    /\ inferred' = TRUE
    /\ UNCHANGED <<engine, resolver_calls, boxes_seen, resolver_total,
                   bystanders, lock, handles, cap_ref, local_names>>

R_Model(r) == R_ModelOf(r, OverlapOutputs)

\* line 284: self.face_frame_count += 1
R_Count(r) ==
    /\ opc[r] = "count"
    /\ face_frame_count' = face_frame_count + 1
    /\ opc' = [opc EXCEPT ![r] = "cadence"]
    /\ UNCHANGED <<deepface_available, known_faces, last_detections,
                   frame_count, person_detected, identified_count,
                   detection_logs, identity_cache, csv_rows, clock, ghost,
                   bystanders, lock, handles, cap_ref, local_names, locals>>

\* line 285: run_face_recognition = (self.face_frame_count % ... == 0)
R_Cadence(r) ==
    /\ opc[r] = "cadence"
    /\ locals' = [locals EXCEPT
                    ![r].run_face = run_face_recognition(face_frame_count),
                    ![r].i = 1]
    /\ opc' = [opc EXCEPT ![r] = "box"]
    /\ UNCHANGED <<engine, ghost, bystanders, lock, handles, cap_ref,
                   local_names>>

\* lines 292-315 for the next person box of the results: a box that is
\* resolved goes through _identify_person (line 302) and has its cache
\* write (303) ahead; another box takes the cached identity or the
\* sentinel and is appended to the local list
R_Box(r) ==
    LET persons == PersonBoxes(locals[r].results)
        i       == locals[r].i
    IN  /\ opc[r] = "box"
        /\ i <= Len(persons)
        /\ IF Resolves(locals[r].run_face)
           THEN /\ \E verdict \in Verdicts :
                      locals' = [locals EXCEPT
                          ![r].id = _identify_person(persons[i].xyxy, verdict),
                          ![r].calls = locals[r].calls + 1]
                /\ resolver_total' = resolver_total + 1
                /\ opc' = [opc EXCEPT ![r] = "write"]
           ELSE /\ locals' = [locals EXCEPT
                      ![r].detections =
                          DetectOne([detections |-> locals[r].detections,
                                     cache |-> identity_cache,
                                     calls |-> 0],
                                    persons[i], FALSE,
                                    [n \in Names |-> Rejected]).detections,
                      ![r].i = i + 1]
                /\ UNCHANGED <<resolver_total, opc>>
        /\ UNCHANGED <<engine, inferred, outcome, resolver_calls, boxes_seen,
                       bystanders, lock, handles, cap_ref, local_names>>

\* lines 303 and 309-315: the identity is stored under the key of the box
\* and the detection appended to the local list
R_Write(r) ==
    LET box == PersonBoxes(locals[r].results)[locals[r].i]
        id  == locals[r].id
    IN  /\ opc[r] = "write"
        /\ identity_cache' = Store(identity_cache, cache_key(box.xyxy), id)
        /\ locals' = [locals EXCEPT
              ![r].detections =
                  Append(locals[r].detections,
                         [bbox |-> box.xyxy, yolo_conf |-> box.conf,
                          identity |-> id.identity,
                          face_conf |-> id.face_conf,
                          is_known |-> id.is_known]),
              ![r].i = locals[r].i + 1]
        /\ opc' = [opc EXCEPT ![r] = "box"]
        /\ UNCHANGED <<deepface_available, known_faces, last_detections,
                       frame_count, face_frame_count, person_detected,
                       identified_count, detection_logs, csv_rows, clock,
                       ghost, bystanders, lock, handles, cap_ref,
                       local_names>>

\* lines 317 and 324: the loop over the boxes is over, and
\* self.last_detections = self._run_detection(frame)
R_Assign(r) ==
    /\ opc[r] = "box"
    /\ locals[r].i > Len(PersonBoxes(locals[r].results))
    /\ last_detections' = locals[r].detections
    /\ resolver_calls' = locals[r].calls
    /\ boxes_seen' = Len(locals[r].detections)
    /\ opc' = [opc EXCEPT ![r] = "test"]
    /\ UNCHANGED <<deepface_available, known_faces, frame_count,
                   face_frame_count, person_detected, identified_count,
                   detection_logs, identity_cache, csv_rows, clock, inferred,
                   outcome, resolver_total, bystanders, lock, handles,
                   cap_ref, local_names, locals>>

\* line 326: if self.last_detections
R_Test(r) ==
    /\ opc[r] = "test"
    /\ opc' = [opc EXCEPT ![r] = IF last_detections # <<>> THEN "set_true"
                                 ELSE "set_false"]
    /\ UNCHANGED <<engine, ghost, bystanders, lock, handles, cap_ref,
                   local_names, locals>>

\* line 327: self.person_detected = True
R_SetTrue(r) ==
    /\ opc[r] = "set_true"
    /\ person_detected' = TRUE
    /\ opc' = [opc EXCEPT ![r] = "names"]
    /\ UNCHANGED <<deepface_available, known_faces, last_detections,
                   frame_count, face_frame_count, identified_count,
                   detection_logs, identity_cache, csv_rows, clock, ghost,
                   bystanders, lock, handles, cap_ref, local_names, locals>>

\* line 328: known_names = [... for d in self.last_detections if ...]
R_Names(r) ==
    /\ opc[r] = "names"
    /\ local_names' = [local_names EXCEPT ![r] = known_names(last_detections)]
    /\ opc' = [opc EXCEPT ![r] = "store"]
    /\ UNCHANGED <<engine, ghost, bystanders, lock, handles, cap_ref, locals>>

\* line 329: self.identified_count = len(known_names)
R_Store(r) ==
    /\ opc[r] = "store"
    /\ identified_count' = Len(local_names[r])
    /\ opc' = [opc EXCEPT ![r] = "call"]
    /\ UNCHANGED <<deepface_available, known_faces, last_detections,
                   frame_count, face_frame_count, person_detected,
                   detection_logs, identity_cache, csv_rows, clock, ghost,
                   bystanders, lock, handles, cap_ref, local_names, locals>>

\* line 330: the arguments of self._log_detection(...) are evaluated
R_Call(r) ==
    /\ opc[r] = "call"
    /\ locals' = [locals EXCEPT ![r].num_persons = Len(last_detections),
                                ![r].identified = identified_count]
    /\ opc' = [opc EXCEPT ![r] = "stamp"]
    /\ UNCHANGED <<engine, ghost, bystanders, lock, handles, cap_ref,
                   local_names>>

\* line 180: timestamp = datetime.now().isoformat()
R_Stamp(r) ==
    /\ opc[r] = "stamp"
    /\ locals' = [locals EXCEPT ![r].timestamp = clock]
    /\ clock' = clock + 1
    /\ opc' = [opc EXCEPT ![r] = "csv"]
    /\ UNCHANGED <<deepface_available, known_faces, last_detections,
                   frame_count, face_frame_count, person_detected,
                   identified_count, detection_logs, identity_cache,
                   csv_rows, ghost, bystanders, lock, handles, cap_ref,
                   local_names>>

\* lines 181-185: the row is written to the CSV file, outside the lock
R_Csv(r) ==
    /\ opc[r] = "csv"
    /\ csv_rows' = Append(csv_rows,
                          CsvRow(locals[r].timestamp, locals[r].num_persons,
                                 locals[r].identified, local_names[r]))
    /\ opc' = [opc EXCEPT ![r] = "lock"]
    /\ UNCHANGED <<deepface_available, known_faces, last_detections,
                   frame_count, face_frame_count, person_detected,
                   identified_count, detection_logs, identity_cache, clock,
                   ghost, bystanders, lock, handles, cap_ref, local_names,
                   locals>>

\* line 187: with self._lock
R_Lock(r) ==
    /\ opc[r] = "lock"
    /\ lock = "free"
    /\ lock' = Holder(r)
    /\ opc' = [opc EXCEPT ![r] = "append"]
    /\ UNCHANGED <<engine, ghost, bystanders, handles, cap_ref, local_names,
                   locals>>

\* lines 188-193: self.detection_logs.append(...)
R_Append(r) ==
    /\ opc[r] = "append"
    /\ detection_logs' = Append(detection_logs,
                                Event(locals[r].timestamp,
                                      locals[r].num_persons,
                                      locals[r].identified, local_names[r]))
    /\ opc' = [opc EXCEPT ![r] = "truncate"]
    /\ UNCHANGED <<deepface_available, known_faces, last_detections,
                   frame_count, face_frame_count, person_detected,
                   identified_count, identity_cache, csv_rows, clock, ghost,
                   bystanders, lock, handles, cap_ref, local_names, locals>>

\* lines 194-195: the truncation; the lock is released, _log_detection and
\* process_frame return and the frame is yielded
R_Truncate(r) ==
    /\ opc[r] = "truncate"
    /\ detection_logs' = IF Len(detection_logs) > MAX_LOGS
                         THEN PySliceFrom(detection_logs, -MAX_LOGS)
                         ELSE detection_logs
    /\ lock' = "free"
    /\ outcome' = "logged"
    /\ opc' = [opc EXCEPT ![r] = "yielded"]
    /\ Return(r)
    /\ UNCHANGED <<deepface_available, known_faces, last_detections,
                   frame_count, face_frame_count, person_detected,
                   identified_count, identity_cache, csv_rows, clock,
                   inferred, resolver_calls, boxes_seen, resolver_total,
                   bystanders, handles, cap_ref>>

\* line 332: self.person_detected = False
R_SetFalse(r) ==
    /\ opc[r] = "set_false"
    /\ person_detected' = FALSE
    /\ opc' = [opc EXCEPT ![r] = "zero"]
    /\ UNCHANGED <<deepface_available, known_faces, last_detections,
                   frame_count, face_frame_count, identified_count,
                   detection_logs, identity_cache, csv_rows, clock, ghost,
                   bystanders, lock, handles, cap_ref, local_names, locals>>

\* line 333: self.identified_count = 0; process_frame returns and the
\* frame is yielded
R_Zero(r) ==
    /\ opc[r] = "zero"
    /\ identified_count' = 0
    /\ outcome' = "empty"
    /\ opc' = [opc EXCEPT ![r] = "yielded"]
    /\ Return(r)
    /\ UNCHANGED <<deepface_available, known_faces, last_detections,
                   frame_count, face_frame_count, person_detected,
                   detection_logs, identity_cache, csv_rows, clock, inferred,
                   resolver_calls, boxes_seen, resolver_total, bystanders,
                   lock, handles, cap_ref>>

\* the consumer of this run asks for the next frame
O_Resume(r) ==
    /\ opc[r] = "yielded"
    /\ opc' = [opc EXCEPT ![r] = "read"]
    /\ UNCHANGED <<engine, ghost, bystanders, lock, handles, cap_ref,
                   local_names, locals>>

\* the generator of this run is closed at its yield: lines 372-375
O_Close(r) ==
    /\ opc[r] = "yielded"
    /\ opc' = [opc EXCEPT ![r] = "stopped"]
    /\ handles' = ReleaseAt(handles, cap_ref)
    /\ UNCHANGED <<engine, ghost, bystanders, lock, cap_ref, local_names,
                   locals>>

\* the statements of process_frame and of what it calls, after the detector
\* returned, but for the cache write of a resolved box
Statements(r) ==
    \/ R_Count(r)
    \/ R_Cadence(r)
    \/ R_Box(r)
    \/ R_Assign(r)
    \/ R_Test(r)
    \/ R_SetTrue(r)
    \/ R_Names(r)
    \/ R_Store(r)
    \/ R_Call(r)
    \/ R_Stamp(r)
    \/ R_Csv(r)
    \/ R_Lock(r)
    \/ R_Append(r)
    \/ R_Truncate(r)
    \/ R_SetFalse(r)
    \/ R_Zero(r)

NextOverlap ==
    \/ \E r \in Runs : O_Start(r)
    \/ \E r \in Runs : O_IsOpened(r)
    \/ \E r \in Runs : O_Raise(r)
    \/ \E r \in Runs : O_Read(r)
    \/ \E r \in Runs : O_Enter(r)
    \/ \E r \in Runs : R_Gate(r)
    \/ \E r \in Runs : R_Model(r)
    \/ \E r \in Runs : Statements(r)
    \/ \E r \in Runs : O_Resume(r)
    \/ \E r \in Runs : O_Close(r)

\* face_frame_count stays below FACE_SKIP_FRAMES in the first
\* MaxOverlapFrames frames, no box is resolved and none has the cache write
\* of line 303 ahead, the one statement that is not among NextOverlap's
SpecOverlap == Init /\ [][NextOverlap]_vars

(***************************************************************************)
(* The same two generators over enough frames for the tenth inference      *)
(* cycle, the first one that resolves identities, and the cycle after it,  *)
(* with DeepFace available and one face in the gallery; the second         *)
(* consumer connects late.                                                 *)
(***************************************************************************)
RaceOutputs ==
    { Returns(<<Result(<<>>)>>),
      Returns(<<Result(<<BoxA>>)>>) }

\* the first consumer may connect at any time, the second one once the
\* engine has counted LateArrival frames
Arrival(r) == IF r = 1 THEN 0 ELSE LateArrival

InitRace ==
    /\ Init
    /\ deepface_available
    /\ faces_dir = <<"alice.jpg">>
    /\ csv_rows = <<>>

NextRace ==
    \/ \E r \in Runs : O_StartAfter(r, Arrival(r))
    \/ \E r \in Runs : O_IsOpened(r)
    \/ \E r \in Runs : O_Raise(r)
    \/ \E r \in Runs : O_Read(r)
    \/ \E r \in Runs : O_EnterUpTo(r, MaxRaceFrames)
    \/ \E r \in Runs : R_Gate(r)
    \/ \E r \in Runs : R_ModelOf(r, RaceOutputs)
    \/ \E r \in Runs : Statements(r)
    \/ \E r \in Runs : R_Write(r)
    \/ \E r \in Runs : O_Resume(r)
    \/ \E r \in Runs : O_Close(r)

SpecRace == InitRace /\ [][NextRace]_vars

(***************************************************************************)
(* Claims checked under Spec and FairSpec.                                 *)
(***************************************************************************)

\* C1: a frame handed to process_frame runs _run_detection iff its index
\* (frame_count after the increment) is a multiple of 5, and a frame that
\* does not run it leaves last_detections as it was.
C1_InferenceCadence ==
    [][frame_count' # frame_count =>
          /\ (inferred' <=> frame_count' % 5 = 0)
          /\ (~inferred' => last_detections' = last_detections)]_vars

C1_Witness ==
    /\ frame_count = 7
    /\ ~inferred
    /\ Len(last_detections) = 2

\* C3: a cycle whose detector call raises ends with an empty Detection Set
\* and person_detected false, and the frame loop keeps running.
C3_DetectorFailureNotFatal ==
    [][(frame_count' # frame_count /\ outcome' = "detector_raised") =>
          /\ last_detections' = <<>>
          /\ person_detected' = FALSE
          /\ pc' \in {"read", "yielded"}]_vars

\* C4: when the CSV write of an event fails, the event is still appended to
\* the in-memory log and the frame loop keeps running.
C4_CsvFailureKeepsEvent ==
    [][(frame_count' # frame_count /\ outcome' = "csv_failed") =>
          /\ Len(detection_logs') = Len(detection_logs) + 1
          /\ pc' \in {"read", "yielded"}]_vars

\* C7: a run that leaves RUNNING, or that never enters it because the device
\* does not open, ends STOPPED with the camera handle released, and the
\* handle stays released while the run is stopped.
C7_ReleasedOnEveryExit ==
    /\ [][(pc' # pc /\ pc' \notin {"read", "yielded"}) =>
             (pc' \in {"stopped", "raised"} /\ cap' = "released")]_vars
    /\ [](Stopped => cap = "released")

C7_Witness ==
    /\ pc = "raised"
    /\ outcome = "detector_raised"
    /\ cap = "released"
    /\ emitted > 0

\* C8: once the consumer has gone away while the loop is RUNNING, the loop
\* eventually reaches STOPPED with the camera released, also when the reads
\* keep failing.
C8_StopEventuallyStops ==
    [](( stop_requested /\ Running) => <>(Stopped /\ cap = "released"))

\* C10: a failed read changes no pipeline state (counters, Detection Set,
\* cache, log, CSV), emits no frame and leaves the loop at its next read: as
\* long as reads fail the stream stays open.
C10_FailedReadNoEffect ==
    /\ [][fail_streak' > fail_streak =>
             /\ UNCHANGED <<engine, emitted, cap>>
             /\ pc = "read" /\ pc' = "read"]_vars
    /\ [](fail_streak > 0 => pc = "read")

C10_Witness ==
    /\ fail_streak >= 10
    /\ pc = "read"
    /\ cap = "open"
    /\ emitted > 0
    /\ detection_logs = <<>>

(***************************************************************************)
(* Claims checked under SpecCadence.                                       *)
(***************************************************************************)
IdentityOf(d) == Identity(d.identity, d.face_conf, d.is_known)

\* C2: in an inference cycle whose face counter j (face_frame_count after
\* its one increment of the cycle) is a multiple of 10 and whose gallery is
\* not empty, the resolver is called for every person box; in every other
\* inference cycle it is called for no box, and each box takes the value
\* cached under its key or the "SCANNING..." sentinel.
C2_ResolutionAllOrNone ==
    [][face_frame_count' # face_frame_count =>
          /\ face_frame_count' = face_frame_count + 1
          /\ IF face_frame_count' % 10 = 0 /\ known_faces # <<>>
             THEN resolver_calls' = boxes_seen'
             ELSE /\ resolver_calls' = 0
                  /\ \A i \in 1..Len(last_detections') :
                        LET d   == last_detections'[i]
                            key == cache_key(d.bbox)
                        IN  IdentityOf(d) =
                               IF key \in DOMAIN identity_cache
                               THEN identity_cache[key]
                               ELSE Scanning]_vars

C2_Witness ==
    /\ face_frame_count = 11
    /\ boxes_seen = 2
    /\ resolver_calls = 0
    /\ last_detections[1].is_known
    /\ ~last_detections[2].is_known

(***************************************************************************)
(* Claims checked under SpecLog.                                           *)
(***************************************************************************)

\* C5: get_logs(limit), for a limit >= 0, returns at most limit events, and
\* they are the last min(limit, n) events of the in-memory tail, in order.
C5_GetLogsTail ==
    reply # NoReply =>
        LET n == Len(detection_logs)
            m == Min(reply.limit, n)
        IN  /\ Len(reply.logs) <= reply.limit
            /\ reply.logs = SubSeq(detection_logs, n - m + 1, n)

\* C6: the in-memory tail never holds more than 1000 events, and it is the
\* last min(k, 1000) of the k events appended so far, in the order of their
\* appends (the event of append number t carries timestamp t - 1).
C6_BoundedFifoTail ==
    LET n == Len(detection_logs)
    IN  /\ n = Min(clock, 1000)
        /\ \A i \in 1..n : detection_logs[i].timestamp = clock - n + i - 1

C6_Witness ==
    /\ clock = 1001
    /\ Len(detection_logs) = 1000
    /\ detection_logs[1].timestamp = 1
    /\ detection_logs[1000].timestamp = 1000

(***************************************************************************)
(* Claims checked under SpecConc.                                          *)
(***************************************************************************)

\* C9: the person_detected, identified_count and detections_count that one
\* get_status call returns are those of one inference cycle (or of the
\* state before the first), and get_logs never takes its slice while an
\* append is half applied.
C9_StatusOfOneCycle ==
    /\ [](rpc = "done" =>
             Triple(status.person_detected, status.identified_count,
                    status.detections_count) \in cycles)
    /\ [][(reply = NoReply /\ reply' # NoReply) =>
             ppc \notin {"append", "truncate"}]_vars


\* C11: when the capture device does not open, the run ends with the fatal
\* error before any frame: it never is RUNNING (the loop is never entered
\* with a device that did not open), frame_count and every other attribute
\* of the pipeline stay as they were, no event is logged and no frame is
\* emitted.
C11_OpenFailureIsFatal ==
    /\ [](Running => cap \in {"open", "released"})
    /\ [][(~Running /\ pc' = "raised") =>
             UNCHANGED <<engine, emitted>>]_vars

C11_Witness ==
    /\ pc = "raised"
    /\ cap = "released"
    /\ outcome = "none"
    /\ frame_count = 0
    /\ emitted = 0
    /\ detection_logs = <<>>


(***************************************************************************)
(* More claims checked under Spec.                                         *)
(***************************************************************************)

\* C13 as stated: every inference cycle appends exactly one event, the
\* cycles that found nobody included, and a skipped frame appends none
\* (stated here for the frames whose process_frame returned).
C13_OneEventPerCycle ==
    [][(frame_count' # frame_count /\ ~Raised(outcome')) =>
          Len(detection_logs') =
             Len(detection_logs) + (IF inferred' THEN 1 ELSE 0)]_vars

\* C13 amended: a frame appends exactly one event when it is an inference
\* cycle that returned with at least one person, and appends none when it
\* is a skipped frame, a cycle that found nobody, or a cycle ended by an
\* exception (of the detector or of the CSV write).
C13_OneEventPerNonEmptyCycle ==
    [][frame_count' # frame_count =>
          IF inferred' /\ ~Raised(outcome') /\ last_detections' # <<>>
          THEN /\ Len(detection_logs') = Len(detection_logs) + 1
               /\ SubSeq(detection_logs', 1, Len(detection_logs))
                     = detection_logs
               /\ detection_logs'[Len(detection_logs')].num_persons
                     = Len(last_detections')
          ELSE detection_logs' = detection_logs]_vars

C13_Witness ==
    /\ frame_count = 10
    /\ inferred
    /\ outcome = "empty"
    /\ Len(detection_logs) = 1

(***************************************************************************)
(* More claims checked under SpecCadence.                                  *)
(***************************************************************************)

\* C14: with an empty gallery every detection of the Detection Set carries
\* the not-attempted sentinel "SCANNING..." with confidence 0 and is_known
\* false, never "UNKNOWN", whatever the frames and the boxes, and nothing
\* is stored in the identity cache.
C14_EmptyGalleryScanning ==
    known_faces = <<>> =>
        /\ \A i \in 1..Len(last_detections) :
              /\ IdentityOf(last_detections[i]) = Scanning
              /\ last_detections[i].identity # "UNKNOWN"
        /\ identity_cache = EmptyCache

C14_Witness ==
    /\ deepface_available
    /\ known_faces = <<>>
    /\ face_frame_count = 10
    /\ Len(last_detections) = 2
    /\ last_detections[1].identity = "SCANNING..."

\* C18: after an inference cycle that ran no resolution, every box of the
\* Detection Set carries the value stored under its own key, or the
\* sentinel ("SCANNING...", 0, false) when nothing is stored under that
\* key: two boxes with one key carry the same value, and a box that moved
\* to a key nothing is stored under carries the sentinel, not the value of
\* the key it left.
C18_CachedUnderOwnKey ==
    (face_frame_count > 0
       /\ ~(face_frame_count % 10 = 0 /\ known_faces # <<>>)) =>
        /\ \A i \in 1..Len(last_detections) :
              LET d   == last_detections[i]
                  key == cache_key(d.bbox)
              IN  /\ key \in DOMAIN identity_cache =>
                        IdentityOf(d) = identity_cache[key]
                  /\ key \notin DOMAIN identity_cache =>
                        IdentityOf(d) = Identity("SCANNING...", 0, FALSE)
        /\ \A i, k \in 1..Len(last_detections) :
              cache_key(last_detections[i].bbox)
                 = cache_key(last_detections[k].bbox) =>
                    IdentityOf(last_detections[i])
                       = IdentityOf(last_detections[k])

C18_Witness ==
    /\ face_frame_count = 11
    /\ Len(last_detections) = 2
    /\ last_detections[1].bbox = BoxE.xyxy
    /\ last_detections[1].identity = "SCANNING..."
    /\ cache_key(BoxA.xyxy) \in DOMAIN identity_cache
    /\ identity_cache[cache_key(BoxA.xyxy)].is_known
    /\ last_detections[2].is_known

\* the bucket of 50 pixels the center ((x1+x2)/2, (y1+y2)/2) of a box falls
\* in: floor(((x1+x2)/2)/50) is (x1+x2) \div 100 for integer corners
CenterBucket(b) == << (b[1] + b[3]) \div 100, (b[2] + b[4]) \div 100 >>

\* C19: the cache key of a box is (floor(cx/50), floor(cy/50)) of its
\* center (cx, cy): the keys a resolution cycle stores under are the center
\* buckets of its boxes, and two boxes have one key iff their centers fall
\* in one bucket of 50 pixels on both axes.
C19_KeyIsCenterBucket ==
    /\ (face_frame_count = 10 /\ known_faces # <<>>) =>
          DOMAIN identity_cache =
             {CenterBucket(last_detections[i].bbox) :
                 i \in 1..Len(last_detections)}
    /\ \A i, k \in 1..Len(last_detections) :
          (cache_key(last_detections[i].bbox)
              = cache_key(last_detections[k].bbox))
          <=> (CenterBucket(last_detections[i].bbox)
                  = CenterBucket(last_detections[k].bbox))

(***************************************************************************)
(* Claims checked under SpecGallery.                                       *)
(***************************************************************************)

\* the names of a gallery, whatever their order
NameSet(names) == { names[i] : i \in 1..Len(names) }

\* C12: after an add-reference or remove-reference operation that changed
\* the folder, the gallery holds the names a scan of the folder gives, in
\* whatever order, so that the next resolution cycle and the next
\* list-names call see the reference added or removed.
C12_GalleryReloaded ==
    /\ [][faces_dir' # faces_dir =>
             NameSet(known_faces') = NameSet(_load_known_faces(faces_dir'))]_vars
    /\ [](response.route = "get_faces" =>
             NameSet(response.faces) = NameSet(_load_known_faces(faces_dir)))


(***************************************************************************)
(* Claims checked under SpecIdentify.                                      *)
(***************************************************************************)

\* C15: identify_face answers with the first gallery entry, in gallery
\* order, whose verification reports verified, as (name, 1 - distance,
\* true), and verifies no later entry; an entry whose verification raises
\* counts as no match; when no entry matches the answer is
\* ("UNKNOWN", 0.0, false).
C15_FirstMatchWins ==
    probe.called =>
        LET g    == known_faces
            v    == probe.verdict
            hits == {i \in 1..Len(g) : v[g[i]].kind = "verified"}
        IN  IF hits = {}
            THEN /\ probe.face = Identity("UNKNOWN", 0, FALSE)
                 /\ probe.checked = Len(g)
            ELSE LET m == CHOOSE i \in hits : \A k \in hits : i <= k
                 IN  /\ probe.face =
                           Identity(g[m], 100 - v[g[m]].distance, TRUE)
                     /\ probe.checked = m

C15_Witness ==
    /\ probe.called
    /\ known_faces = <<"Alice", "Bob">>
    /\ probe.verdict["Alice"].kind = "verified"
    /\ probe.verdict["Bob"].kind = "verified"
    /\ probe.face.identity = "Alice"
    /\ probe.face.face_conf = 80
    /\ probe.checked = 1


(***************************************************************************)
(* Claims checked under SpecCrowd.                                         *)
(***************************************************************************)

\* C16 as stated: over the first 50 processed frames the resolver is
\* invoked at most 5 times in total, however many person boxes the frames
\* show.
C16_AtMostFiveCalls ==
    frame_count <= 50 => resolver_total <= 5

\* C16 amended: over the first 50 processed frames the resolver is invoked
\* in one inference cycle at most, that of frame 50, and there at most
\* once per person box: no invocation before frame 50, and after frame 50
\* a total that is 0 or made of the invocations of frame 50's cycle alone,
\* which are no more than the person boxes of that frame.
C16_OneResolutionCycle ==
    /\ frame_count < 50 => resolver_total = 0
    /\ frame_count = 50 =>
          \/ resolver_total = 0
          \/ /\ inferred
             /\ outcome # "detector_raised"
             /\ resolver_total = resolver_calls
             /\ resolver_calls <= boxes_seen

C16_Witness ==
    /\ frame_count = 50
    /\ boxes_seen > 5
    /\ resolver_total = boxes_seen


(***************************************************************************)
(* Claims checked under SpecOverlap.                                       *)
(***************************************************************************)

\* C17: at most one capture/inference/render loop is active on the engine
\* at any time, also with two consumers of the video feed: no two loops
\* are inside process_frame's inference at once.
C17_OneLoopAtATime ==
    /\ Cardinality({r \in Runs : Active(r)}) <= 1
    /\ Cardinality({r \in Runs : InProcess(r)}) <= 1


\* C20: when the gallery is empty or DeepFace is not available, what
\* identify_face and _identify_person return is a not-attempted sentinel
\* that differs from the resolved-as-unknown result ("UNKNOWN", 0.0, false).
C20_NotAttemptedDistinct ==
    (probe.called /\ (known_faces = <<>> \/ ~deepface_available)) =>
        /\ probe.face # Identity("UNKNOWN", 0, FALSE)
        /\ probe.person # Identity("UNKNOWN", 0, FALSE)


(***************************************************************************)
(* More claims checked under SpecConc.                                     *)
(***************************************************************************)

\* the CSV row of an event: the conversion of lines 181-185
RowOf(ev) == CsvRow(ev.timestamp, ev.num_persons, ev.identified, ev.names)

\* C23: every event of the in-memory tail has its row in the CSV file, and
\* the tail is at every moment, whatever the interleaving of the appends
\* and the reads, the rows at the end of the CSV file, in the same order.
C23_TailIsSuffixOfCsv ==
    LET n == Len(detection_logs)
        m == Len(csv_rows)
    IN  /\ n <= m
        /\ \A i \in 1..n : csv_rows[m - n + i] = RowOf(detection_logs[i])

\* C22: when two runs on the engine overlap, every camera handle that was
\* opened is released once both runs have stopped, and no run releases, in
\* its finally, an open handle while another run is still in its loop,
\* reading from self.cap.
C22_HandlesOfOverlappingRuns ==
    /\ []((\A r \in Runs : opc[r] \in {"stopped", "raised"}) =>
             \A i \in 1..Len(handles) : handles[i] = "released")
    /\ [][\A i \in 1..Len(handles) :
             (/\ Len(handles') = Len(handles)
              /\ i = cap_ref
              /\ handles[i] = "open"
              /\ handles'[i] = "released")
                => ~\E r \in Runs : Active(r) /\ opc'[r] = opc[r]]_vars

(***************************************************************************)
(* Claims checked under SpecRace.                                          *)
(***************************************************************************)

\* C21: whenever no process_frame is executing, person_detected is true
\* iff last_detections is not empty, and identified_count is the number of
\* detections of last_detections with is_known true, hence at most the
\* number of detections.
C21_StatusAgreesWithDetections ==
    (\A r \in Runs : ~InProcess(r)) =>
        /\ person_detected <=> (last_detections # <<>>)
        /\ identified_count =
              Cardinality({i \in 1..Len(last_detections) :
                              last_detections[i].is_known})
        /\ identified_count <= Len(last_detections)

=============================================================================
